---- MODULE Spec2Model ----
(***************************************************************************)
(* A model of the cipher library of cryptography_tools_bot                 *)
(* (src/ciphers/*.py).                                                     *)
(*                                                                         *)
(* A character is its code point (Python's ord), a str is a sequence of    *)
(* characters, a list of str is a sequence of sequences.  A call either    *)
(* returns a value or raises: its outcome is a record [exc, val] with      *)
(* exc = "none" for a normal return.                                       *)
(***************************************************************************)
EXTENDS Integers, Sequences, FiniteSets, TLC

VARIABLES
    ctor,   \* the constructor call: its class and its argument
    self,   \* the outcome of the constructor call: the instance's attributes
    pc,     \* "start", "constructed", "ciphered", "deciphered" or "failed"
    arg,    \* the text passed to the cipher call
    ct,     \* the outcome of the cipher call
    darg,   \* the text passed to the decipher call
    pt      \* the outcome of the decipher call

vars == <<ctor, self, pc, arg, ct, darg, pt>>

(***************************************************************************)
(* Outcomes of a call.                                                     *)
(***************************************************************************)
Ok(v) == [exc |-> "none", val |-> v]

Raise(e) == [exc |-> e, val |-> <<>>]

NoCall == [exc |-> "nocall", val |-> <<>>]

(***************************************************************************)
(* String literals.  ord gives the code point of a one-character TLA+      *)
(* string, Str the sequence of code points of a string.                    *)
(***************************************************************************)
Segments ==
    << <<32, " !">>, <<44, ",-./0123456789">>,
       <<63, "?@ABCDEFGHIJKLMNOPQRSTUVWXYZ">>, <<95, "_">>,
       <<97, "abcdefghijklmnopqrstuvwxyz">> >>

ord(ch) ==
    LET k == CHOOSE k \in 1..Len(Segments) :
                 \E n \in 1..Len(Segments[k][2]) : SubSeq(Segments[k][2], n, n) = ch
        n == CHOOSE n \in 1..Len(Segments[k][2]) : SubSeq(Segments[k][2], n, n) = ch
    IN  Segments[k][1] + n - 1

Str(s) == [i \in 1..Len(s) |-> ord(SubSeq(s, i, i))]

(***************************************************************************)
(* Python's str methods, on ASCII.                                         *)
(***************************************************************************)
islower(c) == c \in 97..122

isupper(c) == c \in 65..90

isalpha(c) == islower(c) \/ isupper(c)

isnumeric(c) == c \in 48..57

upper(s) == [i \in 1..Len(s) |-> IF islower(s[i]) THEN s[i] - 32 ELSE s[i]]

lower(s) == [i \in 1..Len(s) |-> IF isupper(s[i]) THEN s[i] + 32 ELSE s[i]]

\* string.ascii_lowercase
ascii_lowercase == [i \in 1..26 |-> 96 + i]

Range(s) == {s[i] : i \in 1..Len(s)}

\* list(s): the list of the one-character strings of s
list(s) == [i \in 1..Len(s) |-> <<s[i]>>]

\* a // b, Python's floor division, for b # 0
floordiv(a, b) == IF b > 0 THEN a \div b ELSE (0 - a) \div (0 - b)

(***************************************************************************)
(* SubstitutionCipher                                                      *)
(***************************************************************************)

\* dict.get(key, default) of a dict modelled as a function
dict_get(d, key, default) == IF key \in DOMAIN d THEN d[key] ELSE default

\* {v: k for k, v in d.items()}: of the keys with one value, the one inserted
\* last wins; the keys of both case maps are inserted in alphabet order
inverse(d) ==
    [v \in {d[k] : k \in DOMAIN d} |->
        CHOOSE k \in DOMAIN d : d[k] = v /\ \A j \in DOMAIN d : d[j] = v => j <= k]

\* cipher_mapping without the .upper() of the uppercase map
cipher_mapping_no_upper(cipher_alphabets) ==
    [lowercase |-> [c \in 97..122 |-> cipher_alphabets[c - 96]],
     uppercase |-> [c \in 65..90 |-> cipher_alphabets[c - 64]]]

\* SubstitutionCipher.cipher_mapping; reads cipher_alphabets[0..25]
cipher_mapping(cipher_alphabets) ==
    [lowercase |-> [c \in 97..122 |-> cipher_alphabets[c - 96]],
     uppercase |-> [c \in 65..90 |-> upper(cipher_alphabets[c - 64])]]

\* SubstitutionCipher.__init__; cipher_mapping raises IndexError on a list
\* shorter than the alphabet
SubstitutionCipher_init(cls, attrs, cipher_alphabets) ==
    IF Len(cipher_alphabets) < 26
    THEN Raise("IndexError")
    ELSE Ok([cls |-> cls, attrs |-> attrs,
             cipher_alphabets |-> cipher_alphabets,
             mapping |-> cipher_mapping(cipher_alphabets)])

RECURSIVE cipher_loop(_, _, _, _)
cipher_loop(mapping, text, i, cipher_text) ==
    IF i > Len(text) THEN cipher_text
    ELSE LET letter == text[i] IN
         cipher_loop(mapping, text, i + 1,
            cipher_text \o
                (IF islower(letter) THEN dict_get(mapping.lowercase, letter, <<letter>>)
                 ELSE IF isupper(letter) THEN dict_get(mapping.uppercase, letter, <<letter>>)
                 ELSE <<letter>>))

\* SubstitutionCipher.cipher
SubstitutionCipher_cipher(obj, text) == Ok(cipher_loop(obj.mapping, text, 1, <<>>))

RECURSIVE decipher_loop(_, _, _, _, _)
decipher_loop(inverse_lower, inverse_upper, text, i, plain_text) ==
    IF i > Len(text) THEN plain_text
    ELSE LET letter == text[i] IN
         decipher_loop(inverse_lower, inverse_upper, text, i + 1,
            plain_text \o
                (IF islower(letter) THEN <<dict_get(inverse_lower, <<letter>>, letter)>>
                 ELSE IF isupper(letter) THEN <<dict_get(inverse_upper, <<letter>>, letter)>>
                 ELSE <<letter>>))

\* SubstitutionCipher.decipher
SubstitutionCipher_decipher(obj, text) ==
    Ok(decipher_loop(inverse(obj.mapping.lowercase), inverse(obj.mapping.uppercase),
                     text, 1, <<>>))

(***************************************************************************)
(* MixedAlphabet                                                           *)
(***************************************************************************)

\* list(dict.fromkeys(keyword)): the characters of keyword, each once, in the
\* order of their first occurrence
fromkeys(keyword) ==
    LET first == SelectSeq([i \in 1..Len(keyword) |-> i],
                           LAMBDA i : \A j \in 1..(i - 1) : keyword[j] # keyword[i])
    IN  [k \in 1..Len(first) |-> <<keyword[first[k]]>>]

\* MixedAlphabet.mixed_cipher_alphabets: every letter not in the list is
\* appended in alphabet order (a letter appended earlier is another letter, so
\* "not in cipher_alphabet" is decided by unique_keyword)
mixed_cipher_alphabets(keyword) ==
    LET unique_keyword == fromkeys(keyword) IN
    unique_keyword \o SelectSeq(list(ascii_lowercase),
                                LAMBDA letter : letter \notin Range(unique_keyword))

\* MixedAlphabet.__init__
MixedAlphabet_init(keyword) ==
    SubstitutionCipher_init("MixedAlphabet", [keyword |-> keyword],
                            mixed_cipher_alphabets(keyword))

(***************************************************************************)
(* Atbash                                                                  *)
(***************************************************************************)

\* list(string.ascii_lowercase[::-1])
reverse_lowercase == [i \in 1..26 |-> <<ascii_lowercase[27 - i]>>]

\* Atbash.__init__
Atbash_init == SubstitutionCipher_init("Atbash", <<>>, reverse_lowercase)

(***************************************************************************)
(* SimpleSubstitution                                                      *)
(***************************************************************************)

\* the argument None (no str has a negative code point)
None == <<0 - 1>>

\* SimpleSubstitution.__init__ with "and" for "or" in the validation
SimpleSubstitution_init_and(cipher_alphabets, sample) ==
    IF cipher_alphabets = None
    THEN SubstitutionCipher_init("SimpleSubstitution", <<>>, sample)
    ELSE LET cipher_alphabets_lower == lower(cipher_alphabets) IN
         IF Len(cipher_alphabets_lower) # 26
               /\ Range(cipher_alphabets_lower) # Range(ascii_lowercase)
         THEN Raise("ValueError")
         ELSE SubstitutionCipher_init("SimpleSubstitution", <<>>,
                                      list(cipher_alphabets_lower))

\* SimpleSubstitution.__init__; sample is what generate_cipher_alphabets
\* (random.sample(string.ascii_lowercase, k=26)) returns when it is called
SimpleSubstitution_init(cipher_alphabets, sample) ==
    IF cipher_alphabets = None
    THEN SubstitutionCipher_init("SimpleSubstitution", <<>>, sample)
    ELSE LET cipher_alphabets_lower == lower(cipher_alphabets) IN
         IF Len(cipher_alphabets_lower) # 26
               \/ Range(cipher_alphabets_lower) # Range(ascii_lowercase)
         THEN Raise("ValueError")
         ELSE SubstitutionCipher_init("SimpleSubstitution", <<>>,
                                      list(cipher_alphabets_lower))

(***************************************************************************)
(* Rotate, Caesar, Rot13, Shift                                            *)
(***************************************************************************)

\* shift_to with a remainder that keeps the sign of shift, as % does in C
shift_to_rem(shift) ==
    [i \in 1..26 |->
        <<(IF ascii_lowercase[i] - 97 + shift >= 0
           THEN (ascii_lowercase[i] - 97 + shift) % 26
           ELSE 0 - ((0 - (ascii_lowercase[i] - 97 + shift)) % 26)) + 97>>]

\* Rotate.shift_to
shift_to(shift) ==
    [i \in 1..26 |-> <<((ascii_lowercase[i] - 97 + shift) % 26) + 97>>]

\* Rotate.__init__
Rotate_init(cls, shift) ==
    SubstitutionCipher_init(cls, [shift |-> shift], shift_to(shift))

\* Caesar.__init__, Rot13.__init__ and Shift.__init__ pass shift on
Caesar_init(shift) == Rotate_init("Caesar", shift)

Rot13_init(shift) == Rotate_init("Rot13", shift)

Shift_init(shift) == Rotate_init("Shift", shift)

(***************************************************************************)
(* Baconian                                                                *)
(***************************************************************************)

\* Baconian.modern_baconian_cipher
modern_baconian_cipher ==
    <<Str("aaaaa"), Str("aaaab"), Str("aaaba"), Str("aaabb"),
       Str("aabaa"), Str("aabab"), Str("aabba"), Str("aabbb"),
       Str("abaaa"), Str("abaab"), Str("ababa"), Str("ababb"),
       Str("abbaa"), Str("abbab"), Str("abbba"), Str("abbbb"),
       Str("baaaa"), Str("baaab"), Str("baaba"), Str("baabb"),
       Str("babaa"), Str("babab"), Str("babba"), Str("babbb"),
       Str("bbaaa"), Str("bbaab") >>

\* Baconian.old_baconian_cipher
old_baconian_cipher ==
    <<Str("aaaaa"), Str("aaaab"), Str("aaaba"), Str("aaabb"),
       Str("aabaa"), Str("aabab"), Str("aabba"), Str("aabbb"),
       Str("abaaa"), Str("abaaa"), Str("abaab"), Str("ababa"),
       Str("ababb"), Str("abbaa"), Str("abbab"), Str("abbba"),
       Str("abbbb"), Str("baaaa"), Str("baaab"), Str("baaba"),
       Str("baabb"), Str("baabb"), Str("babaa"), Str("babab"),
       Str("babba"), Str("babbb") >>

\* Baconian.__init__
Baconian_init(modern_implementation) ==
    SubstitutionCipher_init("Baconian", <<>>,
        IF modern_implementation THEN modern_baconian_cipher ELSE old_baconian_cipher)

\* a separator list holding the space alone
separators_space_only == {32}

\* [" ", "\n", "\t"]
separators == {32, 10, 9}

\* text[i : i + word_length], i counted from 1
slice(text, i, word_length) ==
    SubSeq(text, i, IF i + word_length - 1 > Len(text) THEN Len(text)
                    ELSE i + word_length - 1)

RECURSIVE Baconian_loop(_, _, _, _, _)
Baconian_loop(inverse_lower, inverse_upper, text, i, plain_text) ==
    IF ~(i <= Len(text)) THEN Ok(plain_text)
    ELSE IF text[i] \in separators
    THEN Baconian_loop(inverse_lower, inverse_upper, text, i + 1,
                       Append(plain_text, text[i]))
    ELSE LET block == slice(text, i, 5) IN
         IF Len(block) = 0 THEN Raise("IndexError")
         ELSE Baconian_loop(inverse_lower, inverse_upper, text, i + 5,
                  Append(plain_text,
                         IF islower(block[1]) THEN dict_get(inverse_lower, block, 63)
                         ELSE dict_get(inverse_upper, block, 63)))

\* Baconian.decipher
Baconian_decipher(obj, text) ==
    Baconian_loop(inverse(obj.mapping.lowercase), inverse(obj.mapping.uppercase),
                  text, 1, <<>>)

(***************************************************************************)
(* PolybiusSquare                                                          *)
(***************************************************************************)

\* PolybiusSquare.cipher_alphabets
Polybius_cipher_alphabets ==
    <<Str("00"), Str("01"), Str("02"), Str("03"), Str("04"),
       Str("10"), Str("11"), Str("12"), Str("13"), Str("14"),
       Str("20"), Str("21"), Str("22"), Str("23"), Str("24"),
       Str("30"), Str("31"), Str("32"), Str("33"), Str("34"),
       Str("40"), Str("41"), Str("42"), Str("43"), Str("44"),
       Str("51") >>

\* PolybiusSquare.__init__
PolybiusSquare_init == SubstitutionCipher_init("PolybiusSquare", <<>>, Polybius_cipher_alphabets)

RECURSIVE Polybius_cipher_loop(_, _, _, _)
Polybius_cipher_loop(mapping, text, i, cipher_text) ==
    IF i > Len(text) THEN cipher_text
    ELSE LET letter == text[i] IN
         Polybius_cipher_loop(mapping, text, i + 1,
            cipher_text \o
                (IF islower(letter) THEN dict_get(mapping.lowercase, letter, <<letter>>)
                 ELSE IF isupper(letter) THEN dict_get(mapping.uppercase, letter, <<letter>>)
                 ELSE IF isnumeric(letter) THEN <<>>
                 ELSE <<letter>>))

\* PolybiusSquare.cipher
PolybiusSquare_cipher(obj, text) == Ok(Polybius_cipher_loop(obj.mapping, text, 1, <<>>))

RECURSIVE Polybius_loop(_, _, _, _)
Polybius_loop(inverse_lower, text, i, plain_text) ==
    IF ~(i <= Len(text)) THEN Ok(plain_text)
    ELSE IF text[i] \in separators
    THEN Polybius_loop(inverse_lower, text, i + 1, Append(plain_text, text[i]))
    ELSE LET block == slice(text, i, 2) IN
         Polybius_loop(inverse_lower, text, i + 2,
                       Append(plain_text, dict_get(inverse_lower, block, 63)))

\* PolybiusSquare.decipher
PolybiusSquare_decipher(obj, text) ==
    Polybius_loop(inverse(obj.mapping.lowercase), text, 1, <<>>)

(***************************************************************************)
(* utils                                                                   *)
(***************************************************************************)

\* str.split() splits on whitespace
isspace(c) == c \in {32, 9, 10, 11, 12, 13}

\* omit_blank_spaces: "".join(s.split())
omit_blank_spaces(s) == SelectSeq(s, LAMBDA c : ~isspace(c))

\* omit_all_except_alpha
omit_all_except_alpha(s) == SelectSeq(s, LAMBDA c : isalpha(c))

(***************************************************************************)
(* ColumnarTransposition and Scytale.  A grid is a list of rows, a row a   *)
(* list of cells, a cell "" or a one-character string.  Columns and rows   *)
(* are counted from 1.                                                     *)
(***************************************************************************)

\* ColumnarTransposition.__init__
ColumnarTransposition_init(key) == Ok([cls |-> "ColumnarTransposition", key |-> upper(key)])

\* Scytale.__init__
Scytale_init(key) == Ok([cls |-> "Scytale", key |-> key])

\* sorted(range(len(key)), key=lambda i: (key[i], i))
sorted_by_key(key) ==
    LET before(j, i) == key[j] < key[i] \/ (key[j] = key[i] /\ j < i)
        rank(i) == Cardinality({j \in 1..Len(key) : before(j, i)}) + 1
    IN  [k \in 1..Len(key) |-> CHOOSE i \in 1..Len(key) : rank(i) = k]

\* _get_key_order with Scytale's columns taken from the last to the first
_get_key_order_backwards(obj) ==
    IF obj.cls = "Scytale" THEN [k \in 1..obj.key |-> obj.key + 1 - k]
    ELSE sorted_by_key(obj.key)

\* ColumnarTransposition._get_key_order and Scytale._get_key_order (range(key))
_get_key_order(obj) ==
    IF obj.cls = "Scytale" THEN [k \in 1..obj.key |-> k]
    ELSE sorted_by_key(obj.key)

\* [["" for _ in range(column_len)] for _ in range(row_len)]
empty_grid(row_len, column_len) == [r \in 1..row_len |-> [c \in 1..column_len |-> <<>>]]

\* ColumnarTransposition._create_grid and Scytale._create_grid
_create_grid(obj, text) ==
    LET key_len == IF obj.cls = "Scytale" THEN obj.key ELSE Len(obj.key) IN
    IF key_len = 0 THEN Raise("ZeroDivisionError")
    ELSE Ok(empty_grid(0 - floordiv(0 - Len(text), key_len), key_len))

\* the cells visited by: for r in range(len(grid)): for c in range(len(grid[r]))
row_major(grid) ==
    IF Len(grid) = 0 \/ Len(grid[1]) = 0 THEN <<>>
    ELSE LET n == Len(grid[1]) IN
         [k \in 1..(Len(grid) * n) |-> <<((k - 1) \div n) + 1, ((k - 1) % n) + 1>>]

\* the cells visited by: for c in order: for r in range(len(grid))
column_major(grid, order) ==
    IF Len(grid) = 0 THEN <<>>
    ELSE LET n == Len(grid) IN
         [k \in 1..(Len(order) * n) |-> <<((k - 1) % n) + 1, order[((k - 1) \div n) + 1]>>]

\* if idx < len(text): grid[r][c] = text[idx]; idx += 1, over the cells in
\* turn: idx counts the cells visited, so the k-th cell visited gets the k-th
\* character while there is one (no cell is visited twice)
fill_grid(grid, cells, text) ==
    [r \in 1..Len(grid) |->
        [c \in 1..Len(grid[r]) |->
            IF \E k \in 1..Len(cells) : cells[k] = <<r, c>> /\ k <= Len(text)
            THEN <<text[CHOOSE k \in 1..Len(cells) : cells[k] = <<r, c>>]>>
            ELSE grid[r][c]]]

\* if grid[r][c] != "": out += grid[r][c], over the cells in turn
read_grid(grid, cells) ==
    LET taken == SelectSeq(cells, LAMBDA cell : grid[cell[1]][cell[2]] # <<>>)
    IN  [k \in 1..Len(taken) |-> grid[taken[k][1]][taken[k][2]][1]]

\* ColumnarTransposition.cipher
ColumnarTransposition_cipher(obj, plaintext0) ==
    LET plaintext == upper(omit_all_except_alpha(plaintext0))
        created == _create_grid(obj, plaintext)
    IN  IF created.exc # "none" THEN created
        ELSE LET grid == fill_grid(created.val, row_major(created.val), plaintext)
             IN  Ok(read_grid(grid, column_major(grid, _get_key_order(obj))))

\* ColumnarTransposition.decipher: the grid is sized and filled from the
\* ciphertext as passed in
ColumnarTransposition_decipher(obj, ciphertext) ==
    LET created == _create_grid(obj, ciphertext) IN
    IF created.exc # "none" THEN created
    ELSE LET order == _get_key_order(obj)
             grid == fill_grid(created.val, column_major(created.val, order), ciphertext)
         IN  Ok(read_grid(grid, row_major(grid)))

\* Scytale.cipher with > for >= in the guard
Scytale_cipher_gt(obj, plaintext) ==
    IF obj.key > floordiv(Len(plaintext), 2)
    THEN Raise("ValueError")
    ELSE ColumnarTransposition_cipher(obj, plaintext)

\* Scytale.cipher
Scytale_cipher(obj, plaintext) ==
    IF obj.key >= floordiv(Len(plaintext), 2)
    THEN Raise("ValueError")
    ELSE ColumnarTransposition_cipher(obj, plaintext)

(***************************************************************************)
(* RailFence.  Rows and columns are counted from 0, as in the code; a      *)
(* cell of the rail matrix is None (the empty str here) or one character.  *)
(***************************************************************************)

\* RailFence.__init__ refusing only row_length < 1
RailFence_init_lt1(s, row_length, str_validation) ==
    IF row_length < 1 THEN Raise("ValueError")
    ELSE Ok([cls |-> "RailFence",
             s |-> IF str_validation = "omit_spaces"
                   THEN upper(omit_blank_spaces(s))
                   ELSE upper(omit_all_except_alpha(s)),
             row_length |-> row_length,
             str_validation |-> str_validation])

\* RailFence.__init__
RailFence_init(s, row_length, str_validation) ==
    IF row_length < 2 THEN Raise("ValueError")
    ELSE Ok([cls |-> "RailFence",
             s |-> IF str_validation = "omit_spaces"
                   THEN upper(omit_blank_spaces(s))
                   ELSE upper(omit_all_except_alpha(s)),
             row_length |-> row_length,
             str_validation |-> str_validation])

\* the zig-zag walk shared by create_pattern, create_rail_fence and decipher:
\* the row of every column 0..s_length-1, walked as
\*   row += direction; if row == row_length - 1 or row == 0: direction *= -1
RECURSIVE zigzag(_, _, _, _, _)
zigzag(row_length, s_length, row, direction, rows) ==
    IF Len(rows) = s_length THEN rows
    ELSE LET next == row + direction IN
         zigzag(row_length, s_length, next,
                IF next = row_length - 1 \/ next = 0 THEN 0 - direction ELSE direction,
                Append(rows, row))

\* rails[row][col] of a matrix of row_length rows: an index past the last row
\* raises IndexError
InRange(rows, row_length) == \A k \in 1..Len(rows) : rows[k] <= row_length - 1

\* RailFence.create_pattern
create_pattern(obj) ==
    LET s_length == Len(obj.s)
        rows == zigzag(obj.row_length, s_length, 0, 1, <<>>)
    IN  IF ~InRange(rows, obj.row_length) THEN Raise("IndexError")
        ELSE Ok([row \in 0..(obj.row_length - 1) |->
                    [col \in 0..(s_length - 1) |-> rows[col + 1] = row]])

\* RailFence.create_rail_fence
create_rail_fence(obj) ==
    LET s_length == Len(obj.s)
        rows == zigzag(obj.row_length, s_length, 0, 1, <<>>)
    IN  IF ~InRange(rows, obj.row_length) THEN Raise("IndexError")
        ELSE Ok([row \in 0..(obj.row_length - 1) |->
                    [col \in 0..(s_length - 1) |->
                        IF rows[col + 1] = row THEN <<obj.s[col + 1]>> ELSE <<>>]])

\* RailFence.cipher reading the rail matrix column by column
read_rails_by_column(rail_matrix, row_length, s_length) ==
    LET cells == [k \in 1..(row_length * s_length) |->
                    rail_matrix[(k - 1) % row_length][(k - 1) \div row_length]]
        taken == SelectSeq(cells, LAMBDA ch : ch # <<>>)
    IN  [k \in 1..Len(taken) |-> taken[k][1]]

\* for row in rail_matrix: for ch in row: if ch is not None: out.append(ch)
read_rails(rail_matrix, row_length, s_length) ==
    LET cells == [k \in 1..(row_length * s_length) |->
                    rail_matrix[(k - 1) \div s_length][(k - 1) % s_length]]
        taken == SelectSeq(cells, LAMBDA ch : ch # <<>>)
    IN  [k \in 1..Len(taken) |-> taken[k][1]]

\* RailFence.cipher
RailFence_cipher(obj, rail_matrix) ==
    Ok(read_rails(rail_matrix, obj.row_length, Len(obj.s)))

\* Step 2 of decipher filling the marked cells column by column
idx_at_by_column(mask, s_len, r, c) == c

\* Step 2 of decipher: the number of marked cells before (r, c) in row-major
\* order is the value of idx when (r, c) is filled
idx_at(mask, s_len, r, c) ==
    Cardinality({k \in 0..(r * s_len + c - 1) : mask[k \div s_len][k % s_len]})

\* RailFence.decipher
RailFence_decipher(obj) ==
    LET s_len == Len(obj.s) IN
    IF obj.row_length < 2 \/ s_len = 0 THEN Ok(obj.s)
    ELSE LET mask == create_pattern(obj) IN
         IF mask.exc # "none" THEN mask
         ELSE LET filled == [r \in 0..(obj.row_length - 1) |->
                                [c \in 0..(s_len - 1) |->
                                    IF mask.val[r][c]
                                    THEN <<obj.s[idx_at(mask.val, s_len, r, c) + 1]>>
                                    ELSE <<>>]]
                  rows == zigzag(obj.row_length, s_len, 0, 1, <<>>)
              IN  Ok([c \in 1..s_len |-> filled[rows[c]][c - 1][1]])

(***************************************************************************)
(* Method resolution: the cipher and decipher a class defines or inherits. *)
(***************************************************************************)
cipher(obj, text) ==
    CASE obj.cls = "PolybiusSquare" -> PolybiusSquare_cipher(obj, text)
      [] obj.cls = "ColumnarTransposition" -> ColumnarTransposition_cipher(obj, text)
      [] obj.cls = "Scytale" -> Scytale_cipher(obj, text)
      [] obj.cls = "RailFence" ->
            LET rail_matrix == create_rail_fence(obj) IN
            IF rail_matrix.exc # "none" THEN rail_matrix
            ELSE RailFence_cipher(obj, rail_matrix.val)
      [] OTHER -> SubstitutionCipher_cipher(obj, text)

decipher(obj, text) ==
    CASE obj.cls = "Baconian" -> Baconian_decipher(obj, text)
      [] obj.cls = "PolybiusSquare" -> PolybiusSquare_decipher(obj, text)
      [] obj.cls \in {"ColumnarTransposition", "Scytale"} ->
            ColumnarTransposition_decipher(obj, text)
      [] obj.cls = "RailFence" ->
            LET again == RailFence_init(text, obj.row_length, obj.str_validation) IN
            IF again.exc # "none" THEN again ELSE RailFence_decipher(again.val)
      [] OTHER -> SubstitutionCipher_decipher(obj, text)

(***************************************************************************)
(* The inputs.                                                             *)
(***************************************************************************)
MaxLen == 2

MaxShift == 3

BoundedSeq(S, n) == UNION {[1..k -> S] : k \in 0..n}

\* non-letters: digits, punctuation, whitespace
NonLetters == Str("0123456789 !,-./?@") \o <<10, 9>>

\* the w-th letter in both cases, the next width-1 letters too, and one non-letter
Window(w, width) ==
    UNION {{97 + ((w + d) % 26), 65 + ((w + d) % 26)} : d \in 0..(width - 1)}
        \cup {NonLetters[(w % Len(NonLetters)) + 1]}

\* texts for the letter-for-letter ciphers
SubstTexts == UNION {BoundedSeq(Window(w, 1), MaxLen) : w \in 0..25}

\* any integer shift: negative, zero, positive, larger than 26
Shifts == (0 - MaxShift)..(26 + MaxShift)

swap(s, i, j) == [s EXCEPT ![i] = s[j], ![j] = s[i]]

\* permutations of a..z
SamplePerms ==
    {ascii_lowercase, Str("qwertyuiopasdfghjklzxcvbnm"), Str("zyxwvutsrqponmlkjihgfedcba")}
        \cup {swap(ascii_lowercase, i, i + 1) : i \in 1..25}

\* arguments of SimpleSubstitution: permutations in either case, and strings
\* with a letter duplicated, replaced by a non-letter, dropped or added
SubstArgs ==
    SamplePerms
        \cup {upper(p) : p \in {ascii_lowercase, Str("qwertyuiopasdfghjklzxcvbnm")}}
        \cup {[ascii_lowercase EXCEPT ![i] = 64 + i] : i \in 1..26}
        \cup {[ascii_lowercase EXCEPT ![i] = ascii_lowercase[(i % 26) + 1]] : i \in 1..26}
        \cup {[ascii_lowercase EXCEPT ![i] = 64 + ((i % 26) + 1)] : i \in 1..26}
        \cup {[ascii_lowercase EXCEPT ![i] = 48 + (i % 10)] : i \in 1..26}
        \cup {SubSeq(ascii_lowercase, 1, i - 1) \o SubSeq(ascii_lowercase, i + 1, 26) : i \in 1..26}
        \cup {ascii_lowercase \o <<c>> : c \in {97, 122, 49}}
        \cup {<<>>, Str("abc")}

\* keywords of MixedAlphabet
Keywords ==
    {<<>>, Str("secret"), Str("zebra"), Str("mykey"), Str("aa"), Str("z"),
     Str("cryptography"),
     Str("Key"), Str("k3y"), Str("a!"), Str("SECRET"), Str("my key")}

(***************************************************************************)
(* The state machine: construct an instance, call cipher on a text, call   *)
(* decipher on the ciphertext; or call decipher on a text.                 *)
(***************************************************************************)
Init ==
    /\ ctor = [cls |-> "none", arg |-> <<>>]
    /\ self = NoCall
    /\ pc = "start"
    /\ arg = <<>>
    /\ ct = NoCall
    /\ darg = <<>>
    /\ pt = NoCall

Construct(cls, a, outcome) ==
    /\ pc = "start"
    /\ ctor' = [cls |-> cls, arg |-> a]
    /\ self' = outcome
    /\ pc' = IF outcome.exc = "none" THEN "constructed" ELSE "failed"
    /\ UNCHANGED <<arg, ct, darg, pt>>

NewAtbash == Construct("Atbash", <<>>, Atbash_init)

NewRotate == \E shift \in Shifts : Construct("Rotate", shift, Rotate_init("Rotate", shift))

NewCaesar == \E shift \in Shifts : Construct("Caesar", shift, Caesar_init(shift))

NewRot13 == \E shift \in Shifts : Construct("Rot13", shift, Rot13_init(shift))

NewShift == \E shift \in Shifts : Construct("Shift", shift, Shift_init(shift))

NewSimpleSubstitution ==
    \/ \E s \in SubstArgs :
          Construct("SimpleSubstitution", s, SimpleSubstitution_init(s, <<>>))
    \/ \E sample \in SamplePerms :
          Construct("SimpleSubstitution", None,
                    SimpleSubstitution_init(None, list(sample)))

NewMixedAlphabet ==
    \E keyword \in Keywords : Construct("MixedAlphabet", keyword, MixedAlphabet_init(keyword))

\* cipher(text)
Cipher(texts) ==
    /\ pc = "constructed"
    /\ \E text \in texts :
          /\ arg' = text
          /\ ct' = cipher(self.val, text)
    /\ pc' = "ciphered"
    /\ UNCHANGED <<ctor, self, darg, pt>>

\* decipher(ciphertext) of the ciphertext cipher returned
Decipher ==
    /\ pc = "ciphered"
    /\ ct.exc = "none"
    /\ darg' = ct.val
    /\ pt' = decipher(self.val, ct.val)
    /\ pc' = "deciphered"
    /\ UNCHANGED <<ctor, self, arg, ct>>

\* decipher(text) of any text
DecipherText(texts) ==
    /\ pc = "constructed"
    /\ \E text \in texts :
          /\ darg' = text
          /\ pt' = decipher(self.val, text)
    /\ pc' = "deciphered"
    /\ UNCHANGED <<ctor, self, arg, ct>>

CipherSubst == Cipher(SubstTexts)

NextSubst ==
    \/ NewAtbash
    \/ NewRotate
    \/ NewCaesar
    \/ NewRot13
    \/ NewShift
    \/ NewSimpleSubstitution
    \/ NewMixedAlphabet
    \/ CipherSubst
    \/ Decipher

SpecSubst == Init /\ [][NextSubst]_vars

(***************************************************************************)
(* Baconian and PolybiusSquare.                                            *)
(***************************************************************************)
MaxRaw == 6

\* texts for the block ciphers: two neighbouring letters in both cases and a
\* non-letter
BlockTexts == UNION {BoundedSeq(Window(w, 2), MaxLen) : w \in 0..25}

\* texts handed to Baconian.decipher: code letters of both cases, separators,
\* a digit, punctuation
BaconianRaw ==
    BoundedSeq(Range(Str("abA 1")), MaxRaw) \cup BoundedSeq({97, 10, 9, 33}, MaxRaw)

\* texts handed to PolybiusSquare.decipher
PolybiusRaw ==
    BoundedSeq(Range(Str("015 a")), MaxRaw) \cup BoundedSeq({48, 10, 9, 33}, MaxRaw)

NewBaconian ==
    \E modern_implementation \in BOOLEAN :
        Construct("Baconian", modern_implementation, Baconian_init(modern_implementation))

NewPolybiusSquare == Construct("PolybiusSquare", <<>>, PolybiusSquare_init)

CipherBlock == Cipher(BlockTexts)

DecipherBlock ==
    DecipherText(IF self.val.cls = "Baconian" THEN BaconianRaw ELSE PolybiusRaw)

NextBlock ==
    \/ NewBaconian
    \/ NewPolybiusSquare
    \/ CipherBlock
    \/ Decipher
    \/ DecipherBlock

SpecBlock == Init /\ [][NextBlock]_vars

(***************************************************************************)
(* ColumnarTransposition, Scytale and RailFence.                           *)
(***************************************************************************)
MaxKeyLen == 3

MaxText == 3

MaxPrefix == 12

MaxKey == 5

MaxRows == 4

\* keys of ColumnarTransposition: every column order of up to MaxKeyLen
\* columns, repeated letters, lowercase, a digit, the empty key
ColumnarKeys ==
    BoundedSeq(Range(Str("AB")), MaxKeyLen)
        \cup {Str("CBA"), Str("ZEBRA"), Str("zebra"), Str("b1")}

\* texts: letters of both cases and a digit and a space; texts of distinct letters
TransTexts ==
    BoundedSeq(Range(Str("ABa1")), MaxText)
        \cup {SubSeq(Str("ABCDEFGHIJKLMNOPQRSTUVWXYZ"), 1, n) : n \in 0..MaxPrefix}
        \cup {Str("HELLOWORLD"), Str("short"), Str("we are discovered"), Str("a b"),
              Str("WEAREDISCOVEREDFLEEATONCE")}

ScytaleKeys == ((0 - 2)..MaxKey) \cup {10}

RowLengths == (0 - 1)..MaxRows

NewColumnarTransposition ==
    \E key \in ColumnarKeys :
        Construct("ColumnarTransposition", key, ColumnarTransposition_init(key))

NewScytale == \E key \in ScytaleKeys : Construct("Scytale", key, Scytale_init(key))

NewRailFence ==
    \E s \in TransTexts, row_length \in RowLengths,
       str_validation \in {"omit_all", "omit_spaces"} :
        Construct("RailFence", <<s, row_length, str_validation>>,
                  RailFence_init(s, row_length, str_validation))

\* cipher(text); a RailFence ciphers the rail matrix of its own text
CipherTrans == Cipher(IF self.val.cls = "RailFence" THEN {self.val.s} ELSE TransTexts)

\* decipher(text) of any text; a RailFence deciphers its own text
DecipherTrans ==
    DecipherText(IF self.val.cls = "RailFence" THEN {self.val.s} ELSE TransTexts)

NextTrans ==
    \/ NewColumnarTransposition
    \/ NewScytale
    \/ NewRailFence
    \/ CipherTrans
    \/ Decipher
    \/ DecipherTrans

SpecTrans == Init /\ [][NextTrans]_vars

(***************************************************************************)
(* The bot's cipher command (src/bot.py).  A message is its text; a reply  *)
(* is its kind and, for a response with an Output line, the result.        *)
(***************************************************************************)

\* str.split(): the maximal runs of characters that are not whitespace
split(s) ==
    LET starts == SelectSeq([i \in 1..Len(s) |-> i],
                            LAMBDA i : ~isspace(s[i]) /\ (i = 1 \/ isspace(s[i - 1])))
        end(i) == CHOOSE j \in i..Len(s) :
                      /\ \A k \in i..j : ~isspace(s[k])
                      /\ j = Len(s) \/ isspace(s[j + 1])
    IN  [k \in 1..Len(starts) |-> SubSeq(s, starts[k], end(starts[k]))]

\* " ".join(words)
RECURSIVE join(_)
join(words) ==
    IF words = <<>> THEN <<>>
    ELSE IF Len(words) = 1 THEN words[1]
    ELSE words[1] \o <<32>> \o join(Tail(words))

\* str.strip()
strip(s) ==
    IF \A i \in 1..Len(s) : isspace(s[i]) THEN <<>>
    ELSE LET first == CHOOSE i \in 1..Len(s) : ~isspace(s[i]) /\ \A j \in 1..(i - 1) : isspace(s[j])
             last == CHOOSE i \in 1..Len(s) : ~isspace(s[i]) /\ \A j \in (i + 1)..Len(s) : isspace(s[j])
         IN  SubSeq(s, first, last)

\* names the handler compares with
mixed_alphabet == Str("mixed_alphabet")

simple_substitution == Str("simple_substitution")

\* if op in ["cipher", "encrypt"] / elif op in ["decipher", "decrypt"]
operations == [cipher |-> {Str("cipher"), Str("encrypt")},
               decipher |-> {Str("decipher"), Str("decrypt")}]

invalid_operation == Str("Invalid operation")

\* the dispatcher table
cipher_classes ==
    (Str("atbash") :> "Atbash") @@ (Str("caesar") :> "Caesar")
        @@ (simple_substitution :> "SimpleSubstitution")
        @@ (Str("baconian") :> "Baconian") @@ (Str("rot13") :> "Rot13")
        @@ (Str("shift") :> "Shift") @@ (mixed_alphabet :> "MixedAlphabet")

\* cipher_class(): the constructor called with no argument, every parameter
\* at its default; Shift's shift has none.  sample is what random.sample
\* returns in SimpleSubstitution
cipher_class(cls, sample) ==
    CASE cls = "Atbash" -> Atbash_init
      [] cls = "Caesar" -> Caesar_init(3)
      [] cls = "SimpleSubstitution" -> SimpleSubstitution_init(None, list(sample))
      [] cls = "Baconian" -> Baconian_init(TRUE)
      [] cls = "Rot13" -> Rot13_init(13)
      [] cls = "Shift" -> Raise("TypeError")

Reply(kind, output) == [kind |-> kind, output |-> output]

\* cipher_command: the reply, and the instance and text it worked on
cipher_command(message_text, sample) ==
    LET args == split(message_text)
        op == lower(Tail(args[1]))
        nothing == [instance |-> NoCall, text |-> <<>>]
    IN  IF Len(args) < 3 THEN [reply |-> Reply("Usage", <<>>)] @@ nothing
        ELSE LET algo == lower(args[2]) IN
        IF algo \notin DOMAIN cipher_classes
        THEN [reply |-> Reply("not supported", <<>>)] @@ nothing
        ELSE IF algo = mixed_alphabet /\ Len(args) < 4
        THEN [reply |-> Reply("requires keyword", <<>>)] @@ nothing
        ELSE LET text == IF algo = mixed_alphabet
                         THEN join(SubSeq(args, 4, Len(args)))
                         ELSE join(SubSeq(args, 3, Len(args)))
                 cipher_instance == IF algo = mixed_alphabet
                                    THEN MixedAlphabet_init(args[3])
                                    ELSE cipher_class(cipher_classes[algo], sample)
                 ran == [instance |-> cipher_instance, text |-> text]
             IN  IF cipher_instance.exc # "none"
                 THEN [reply |-> Reply("Error during", cipher_instance.exc)] @@ ran
                 ELSE IF strip(text) = <<>>
                 THEN [reply |-> Reply("provide text", <<>>)] @@ ran
                 ELSE LET result ==
                              IF op \in operations.cipher
                              THEN cipher(cipher_instance.val, text)
                              ELSE IF op \in operations.decipher
                              THEN decipher(cipher_instance.val, text)
                              ELSE Ok(invalid_operation)
                      IN  IF result.exc # "none"
                          THEN [reply |-> Reply("Error during", result.exc)] @@ ran
                          ELSE [reply |-> Reply("Output", result.val)] @@ ran

\* algorithm names as a user types them: every name of the help text in
\* lowercase, in uppercase and capitalised, and a name the table lacks
AlgoNames ==
    UNION {{algo, upper(algo), upper(SubSeq(algo, 1, 1)) \o Tail(algo)} :
              algo \in DOMAIN cipher_classes}
        \cup {Str("polybius")}

BotKeywords == {Str("mykey"), Str("Key")}

\* permutations random.sample returns
BotSamples ==
    {ascii_lowercase, Str("qwertyuiopasdfghjklzxcvbnm"), Str("zyxwvutsrqponmlkjihgfedcba")}

\* the commands the handler is registered for
BotCommands == [cipher |-> {Str("/cipher"), Str("/encrypt")},
                decipher |-> {Str("/decipher"), Str("/decrypt")}]

BotSecondWord == <<Str("by")>>

\* words of letters: one letter in both cases, from either end and the
\* middle of the alphabet
BotWords == UNION {BoundedSeq({c, c - 32}, MaxLen) \ {<<>>} : c \in Range(Str("ahoyz"))}

\* texts: no word, one word, two words
BotTexts == {<<>>} \cup {<<w>> : w \in BotWords} \cup {<<w>> \o BotSecondWord : w \in BotWords}

\* the permutations SimpleSubstitution() may draw while handling a command
\* for algo; no other constructor draws one
SamplesFor(algo) ==
    IF lower(algo) = simple_substitution THEN BotSamples ELSE {ascii_lowercase}

\* a /cipher or /encrypt message: /<op> <algorithm> [keyword] <text>
BotCipher ==
    /\ pc = "start"
    /\ \E op \in BotCommands.cipher, algo \in AlgoNames, words \in BotTexts :
         \E keyword \in (IF lower(algo) = mixed_alphabet
                          THEN {<<kw>> : kw \in BotKeywords} \cup {<<>>} ELSE {<<>>}),
            sample \in SamplesFor(algo) :
             LET message_text == join(<<op, algo>> \o keyword \o words)
                 ran == cipher_command(message_text, sample)
             IN  /\ ctor' = [cls |-> "cipher_command", arg |-> message_text]
                 /\ self' = ran.instance
                 /\ arg' = ran.text
                 /\ ct' = ran.reply
    /\ pc' = "ciphered"
    /\ UNCHANGED <<darg, pt>>

\* the /decipher or /decrypt message that follows: the same algorithm (and
\* keyword) and the output of the first command as its text
BotDecipher ==
    /\ pc = "ciphered"
    /\ ctor.cls = "cipher_command"
    /\ ct.kind = "Output"
    /\ LET first == split(ctor.arg)
           algo == first[2]
           same == SubSeq(first, 2, IF lower(algo) = mixed_alphabet THEN 3 ELSE 2)
       IN  \E op \in BotCommands.decipher, sample \in SamplesFor(algo) :
             LET message_text == join(<<op>> \o same) \o <<32>> \o ct.output
                 ran == cipher_command(message_text, sample)
             IN  /\ self' = ran.instance
                 /\ darg' = ran.text
                 /\ pt' = ran.reply
    /\ pc' = "deciphered"
    /\ UNCHANGED <<ctor, arg, ct>>

NextBot ==
    \/ BotCipher
    \/ BotDecipher

SpecBot == Init /\ [][NextBot]_vars

(***************************************************************************)
(* A substitution cipher instance called again and again.                  *)
(***************************************************************************)

\* the constructor calls of the substitution variants
new(cls, a) ==
    CASE cls = "Atbash" -> Atbash_init
      [] cls = "Rotate" -> Rotate_init("Rotate", a)
      [] cls = "Caesar" -> Caesar_init(a)
      [] cls = "Rot13" -> Rot13_init(a)
      [] cls = "Shift" -> Shift_init(a)
      [] cls = "SimpleSubstitution" -> SimpleSubstitution_init(a, <<>>)
      [] cls = "MixedAlphabet" -> MixedAlphabet_init(a)
      [] cls = "Baconian" -> Baconian_init(a)
      [] cls = "PolybiusSquare" -> PolybiusSquare_init

\* a decipher that leaves the two case maps of self.mapping exchanged
decipher_effect_swapping(obj, text) ==
    [obj EXCEPT !.mapping = [lowercase |-> obj.mapping.uppercase,
                             uppercase |-> obj.mapping.lowercase]]

\* the attributes of the instance after cipher(text): cipher reads
\* self.mapping and builds cipher_text, a local str; it assigns no attribute
\* and changes no list or dict
cipher_effect(obj, text) == obj

\* the attributes of the instance after decipher(text): inverse_lower and
\* inverse_upper are new local dicts, plain_text a local str
decipher_effect(obj, text) == obj

\* constructor calls, one or two of each variant; both Baconian tables
CallCtors ==
    {<<"Atbash", <<>>>>, <<"PolybiusSquare", <<>>>>,
     <<"Baconian", TRUE>>, <<"Baconian", FALSE>>,
     <<"Rotate", 1>>, <<"Caesar", 3>>, <<"Rot13", 13>>, <<"Shift", 0 - 1>>,
     <<"SimpleSubstitution", Str("qwertyuiopasdfghjklzxcvbnm")>>,
     <<"MixedAlphabet", Str("secret")>>, <<"MixedAlphabet", Str("k3y")>>}

\* texts: a lowercase and an uppercase letter, and a digit
CallTexts == BoundedSeq(Range(Str("aJ")), MaxLen) \cup {Str("1"), Str("a1")}

NewInstance == \E c \in CallCtors : Construct(c[1], c[2], new(c[1], c[2]))

\* cipher(text), as the first call or after any other
CallCipher ==
    /\ pc \in {"constructed", "ciphered", "deciphered"}
    /\ \E text \in CallTexts :
          /\ arg' = text
          /\ ct' = cipher(self.val, text)
          /\ self' = Ok(cipher_effect(self.val, text))
    /\ pc' = "ciphered"
    /\ UNCHANGED <<ctor, darg, pt>>

\* decipher(text) of a text or of the last ciphertext, as the first call or
\* after any other
CallDecipher ==
    /\ pc \in {"constructed", "ciphered", "deciphered"}
    /\ \E text \in CallTexts \cup (IF ct.exc = "none" THEN {ct.val} ELSE {}) :
          /\ darg' = text
          /\ pt' = decipher(self.val, text)
          /\ self' = Ok(decipher_effect(self.val, text))
    /\ pc' = "deciphered"
    /\ UNCHANGED <<ctor, arg, ct>>

NextCalls ==
    \/ NewInstance
    \/ CallCipher
    \/ CallDecipher

SpecCalls == Init /\ [][NextCalls]_vars

(***************************************************************************)
(* The claims.                                                             *)
(***************************************************************************)

\* a round trip: decipher was called on what cipher returned
RoundTrip == pc = "deciphered" /\ ct.exc = "none"

IsLowerWord(s) == \A i \in 1..Len(s) : islower(s[i])

IsUpperWord(s) == \A i \in 1..Len(s) : isupper(s[i])

\* a list of 26 one-character strings holding every letter a..z exactly once
IsAlphabetPermutation(l) ==
    /\ Len(l) = 26
    /\ \A c \in 97..122 : Cardinality({i \in 1..26 : l[i] = <<c>>}) = 1

\* C1: Atbash, Rotate/Caesar/Rot13/Shift with any shift, SimpleSubstitution
\* built from a valid permutation and MixedAlphabet built from a keyword of
\* lowercase letters: decipher(cipher(t)) = t for every text t of letters of
\* both cases, digits, punctuation and whitespace.
C1_RoundTrip ==
    (/\ RoundTrip
     /\ \/ ctor.cls \in {"Atbash", "Rotate", "Caesar", "Rot13", "Shift", "SimpleSubstitution"}
        \/ ctor.cls = "MixedAlphabet" /\ IsLowerWord(ctor.arg))
        => pt = Ok(arg)

\* C1 happens: MixedAlphabet("secret") round-trips a text of a letter and a
\* non-letter that it does change
C1_Witness ==
    /\ RoundTrip
    /\ ctor.cls = "MixedAlphabet" /\ ctor.arg = Str("secret")
    /\ Len(arg) = 2
    /\ isupper(arg[1]) /\ ~isalpha(arg[2])
    /\ ct.val # arg
    /\ pt = Ok(arg)

\* C4: for every keyword, the alphabet MixedAlphabet builds has exactly 26
\* entries and is a permutation of a..z.
C4_AlphabetIsPermutation ==
    (ctor.cls = "MixedAlphabet" /\ pc # "start")
        => /\ self.exc = "none"
           /\ IsAlphabetPermutation(self.val.cipher_alphabets)

\* a string that, lowercased, has 26 characters, every letter a..z among them
IsValidAlphabet(s) ==
    /\ Len(s) = 26
    /\ \A c \in 97..122 : \E i \in 1..26 : s[i] = c \/ s[i] = c - 32

\* C5: SimpleSubstitution(s) raises ValueError unless s lowercased is 26
\* characters whose set is a..z; a 25-character string and a 26-character
\* string with a duplicated letter are rejected; every alphabet accepted or
\* generated is a permutation of a..z and round-trips.
C5_Validation ==
    (ctor.cls = "SimpleSubstitution")
        => /\ ctor.arg # None =>
                /\ (self = Raise("ValueError")) <=> ~IsValidAlphabet(ctor.arg)
                /\ Len(ctor.arg) = 25 => pc = "failed"
                /\ (Len(ctor.arg) = 26 /\ Cardinality(Range(lower(ctor.arg))) < 26)
                        => pc = "failed"
           /\ self.exc \in {"none", "ValueError"}
           /\ self.exc = "none" => IsAlphabetPermutation(self.val.cipher_alphabets)
           /\ RoundTrip => pt = Ok(arg)

\* C5 happens: a 26-character string with a duplicated letter is rejected
C5_Witness ==
    /\ ctor.cls = "SimpleSubstitution"
    /\ ctor.arg # None
    /\ Len(ctor.arg) = 26
    /\ IsLowerWord(ctor.arg)
    /\ Cardinality(Range(ctor.arg)) = 25
    /\ self = Raise("ValueError")
    /\ pc = "failed"

\* the letter k positions after c in the alphabet of its case, wrapping
\* around after the last letter; any other character is itself
Forward(c, k) ==
    IF islower(c) THEN (IF c + k <= 122 THEN c + k ELSE c + k - 26)
    ELSE IF isupper(c) THEN (IF c + k <= 90 THEN c + k ELSE c + k - 26)
    ELSE c

\* the letter k positions before c
Backward(c, k) ==
    IF islower(c) THEN (IF c - k >= 97 THEN c - k ELSE c - k + 26)
    ELSE IF isupper(c) THEN (IF c - k >= 65 THEN c - k ELSE c - k + 26)
    ELSE c

\* C6: with any integer shift s, Rotate/Caesar/Rot13/Shift cipher and
\* decipher as with shift s mod 26: every letter moves s mod 26 positions
\* forward (back, on decipher) with wrap-around.
C6_ShiftNormalized ==
    (ctor.cls \in {"Rotate", "Caesar", "Rot13", "Shift"})
        => LET normal == Rotate_init(ctor.cls, ctor.arg % 26).val IN
           /\ pc \in {"ciphered", "deciphered"} =>
                /\ ct = cipher(normal, arg)
                /\ ct = Ok([i \in 1..Len(arg) |-> Forward(arg[i], ctor.arg % 26)])
           /\ pc = "deciphered" =>
                /\ pt = decipher(normal, darg)
                /\ pt = Ok([i \in 1..Len(darg) |-> Backward(darg[i], ctor.arg % 26)])

\* C6 happens: Caesar(29).cipher("a") = "d"
C6_Witness ==
    /\ ctor.cls = "Caesar" /\ ctor.arg = 29
    /\ pc = "ciphered"
    /\ arg = Str("a")
    /\ ct = Ok(Str("d"))

\* C2: for every non-empty key and every text t of uppercase letters, of any
\* length, ColumnarTransposition(key).decipher(cipher(t)) = t.
C2_ColumnarRoundTrip ==
    (/\ RoundTrip
     /\ ctor.cls = "ColumnarTransposition"
     /\ Len(ctor.arg) > 0
     /\ IsUpperWord(arg))
        => pt = Ok(arg)

\* the text with every J turned into I and every V into U, in both cases
FirstOfPair(t) ==
    [i \in 1..Len(t) |-> IF t[i] \in {74, 106, 86, 118} THEN t[i] - 1 ELSE t[i]]

\* C3: under the old Baconian table I and J share a block and U and V share
\* a block, and a shared block decodes to the first letter of its pair:
\* decipher(cipher("IJ")) = "II", decipher(cipher("UV")) = "UU", likewise in
\* lowercase.
C3_OldBaconianFirstOfPair ==
    (/\ ctor.cls = "Baconian" /\ ctor.arg = FALSE
     /\ pc # "start")
        => /\ self.val.mapping.lowercase[105] = self.val.mapping.lowercase[106]
           /\ self.val.mapping.uppercase[73] = self.val.mapping.uppercase[74]
           /\ self.val.mapping.lowercase[117] = self.val.mapping.lowercase[118]
           /\ self.val.mapping.uppercase[85] = self.val.mapping.uppercase[86]
           /\ (RoundTrip /\ \A i \in 1..Len(arg) : arg[i] \in Range(Str("IJUVijuv")))
                => pt = Ok(FirstOfPair(arg))

\* C7: Scytale(key).cipher(text) raises ValueError, and returns no
\* ciphertext, whenever key >= len(text) // 2.
C7_ScytaleGuard ==
    (/\ ctor.cls = "Scytale"
     /\ pc \in {"ciphered", "deciphered"}
     /\ ct.exc # "nocall"
     /\ ctor.arg >= Len(arg) \div 2)
        => ct = Raise("ValueError")

\* C7 happens: Scytale(10).cipher("short") raises ValueError
C7_Witness ==
    /\ ctor.cls = "Scytale" /\ ctor.arg = 10
    /\ pc = "ciphered"
    /\ arg = Str("short")
    /\ ct = Raise("ValueError")

\* C8: for every row_length >= 2 and every text t of uppercase letters, also
\* one shorter than row_length, RailFence(c, row_length).decipher() = t for the
\* ciphertext c of RailFence(t, row_length).
C8_RailFenceRoundTrip ==
    (/\ RoundTrip
     /\ ctor.cls = "RailFence"
     /\ IsUpperWord(ctor.arg[1]))
        => /\ arg = ctor.arg[1]
           /\ pt = Ok(ctor.arg[1])

\* C8 happens: three rails, a text long enough to turn at both rails, a
\* ciphertext that differs from the text
C8_Witness ==
    /\ RoundTrip
    /\ ctor.cls = "RailFence"
    /\ ctor.arg[2] = 3
    /\ ctor.arg[1] = Str("ABCDEFG")
    /\ ct = Ok(Str("AEBDFCG"))
    /\ pt = Ok(Str("ABCDEFG"))

\* where the blocks and separators of a text handed to decipher start: after
\* a space, newline or tab the next position, after any other the position
\* width characters on
RECURSIVE Starts(_, _, _)
Starts(text, i, width) ==
    IF i > Len(text) THEN <<>>
    ELSE <<i>> \o Starts(text, IF text[i] \in {32, 10, 9} THEN i + 1 ELSE i + width, width)

\* the codes of the table of an instance, in both cases
Table(obj) ==
    {obj.mapping.lowercase[c] : c \in 97..122} \cup {obj.mapping.uppercase[c] : c \in 65..90}

\* C9: Baconian.decipher and PolybiusSquare.decipher return a string for
\* every input: a space, newline or tab gives itself, every other position
\* starts a block of 5 (Baconian) or 2 (Polybius) characters, and a block that
\* is not in the table gives one "?".
C9_DecipherShape ==
    (ctor.cls \in {"Baconian", "PolybiusSquare"} /\ pc = "deciphered")
        => LET width == IF ctor.cls = "Baconian" THEN 5 ELSE 2
               starts == Starts(darg, 1, width)
               block(k) == SubSeq(darg, starts[k],
                                  IF starts[k] + width - 1 > Len(darg) THEN Len(darg)
                                  ELSE starts[k] + width - 1)
           IN  /\ pt.exc = "none"
               /\ Len(pt.val) = Len(starts)
               /\ \A k \in 1..Len(starts) :
                     IF darg[starts[k]] \in {32, 10, 9}
                     THEN pt.val[k] = darg[starts[k]]
                     ELSE block(k) \notin Table(self.val) => pt.val[k] = 63

\* C9 happens: Baconian.decipher of a block of the table followed by a
\* newline and a block cut short by the end of the text
C9_Witness ==
    /\ ctor.cls = "Baconian"
    /\ pc = "deciphered"
    /\ darg = <<97, 97, 97, 97, 97, 10>>
    /\ pt = Ok(<<97, 10>>)

\* C10: modern Baconian round-trips every text of letters of both cases,
\* digits, punctuation and whitespace.
C10_ModernBaconianRoundTrip ==
    (/\ RoundTrip
     /\ ctor.cls = "Baconian" /\ ctor.arg = TRUE)
        => pt = Ok(arg)

\* the 2-character coordinate code of a letter: row and column of its place
\* in the 5 by 5 square, and "51" for the 26th letter
Coordinate(c) ==
    LET n == IF islower(c) THEN c - 97 ELSE c - 65 IN
    IF n = 25 THEN <<53, 49>> ELSE <<48 + (n \div 5), 48 + (n % 5)>>

RECURSIVE Concat(_)
Concat(ss) == IF ss = <<>> THEN <<>> ELSE Head(ss) \o Concat(Tail(ss))

\* a text of letters of either case, digits, and space, newline and tab
IsPolybiusText(t) ==
    \A i \in 1..Len(t) : isalpha(t[i]) \/ isnumeric(t[i]) \/ t[i] \in {32, 10, 9}

\* C11: for every text t of letters of either case, digits and
\* space/newline/tab, PolybiusSquare.cipher(t) gives each letter's
\* 2-character coordinate code and nothing for a digit, and
\* decipher(cipher(t)) is t with its digits removed, letter case preserved.
C11_PolybiusLosesOnlyDigits ==
    (/\ ctor.cls = "PolybiusSquare"
     /\ pc \in {"ciphered", "deciphered"}
     /\ ct.exc # "nocall"
     /\ IsPolybiusText(arg))
        => /\ ct = Ok(Concat([i \in 1..Len(arg) |->
                        IF isalpha(arg[i]) THEN Coordinate(arg[i])
                        ELSE IF isnumeric(arg[i]) THEN <<>>
                        ELSE <<arg[i]>>]))
           /\ pc = "deciphered"
                => pt = Ok(SelectSeq(arg, LAMBDA c : ~isnumeric(c)))

\* C12: ColumnarTransposition.decipher normalizes as cipher does: for every
\* key and every input (lowercase letters, digits, spaces, punctuation too)
\* the grid is sized and filled from the input with non-letters stripped and
\* letters upper-cased, so the result holds only uppercase letters and is the
\* decipher of the normalized input.
C12_DecipherNormalizes ==
    (/\ ctor.cls = "ColumnarTransposition"
     /\ Len(ctor.arg) > 0
     /\ pc = "deciphered")
        => /\ pt.exc = "none"
           /\ IsUpperWord(pt.val)
           /\ pt = decipher(self.val, upper(omit_all_except_alpha(darg)))

\* the worked example of Rail Fence
Classic == [plain |-> Str("WEAREDISCOVEREDFLEEATONCE"),
            cipher |-> Str("WECRLTEERDSOEEFEAOCAIVDEN")]

\* C13: RailFence("WEAREDISCOVEREDFLEEATONCE", row_length=3).decipher()
\* returns the classic ciphertext "WECRLTEERDSOEEFEAOCAIVDEN".
C13_WorkedExampleDecipher ==
    (/\ ctor.cls = "RailFence"
     /\ ctor.arg[1] = Classic.plain /\ ctor.arg[2] = 3
     /\ pc = "deciphered"
     /\ darg = Classic.plain)
        => pt = Ok(Classic.cipher)

\* C13 as the code has it: RailFence("WEAREDISCOVEREDFLEEATONCE", 3) ciphers
\* its rail matrix to "WECRLTEERDSOEEFEAOCAIVDEN", and
\* RailFence("WECRLTEERDSOEEFEAOCAIVDEN", 3).decipher() returns
\* "WEAREDISCOVEREDFLEEATONCE".
C13_WorkedExampleCipher ==
    (/\ ctor.cls = "RailFence"
     /\ ctor.arg[1] = Classic.plain /\ ctor.arg[2] = 3)
        => /\ (pc \in {"ciphered", "deciphered"} /\ ct.exc # "nocall")
                => ct = Ok(Classic.cipher)
           /\ (pc = "deciphered" /\ darg = Classic.cipher)
                => pt = Ok(Classic.plain)

\* C13 happens: the example is ciphered and the ciphertext deciphered
C13_Witness ==
    /\ ctor.cls = "RailFence"
    /\ ctor.arg[1] = Classic.plain /\ ctor.arg[2] = 3
    /\ ct = Ok(Classic.cipher)
    /\ pc = "deciphered"
    /\ darg = Classic.cipher
    /\ pt = Ok(Classic.plain)

\* the algorithm of the first message is one the help text lists, and it
\* comes with a text (and, for mixed_alphabet, with a keyword before it)
ListedWithText ==
    /\ ctor.cls = "cipher_command"
    /\ pc \in {"ciphered", "deciphered"}
    /\ LET args == split(ctor.arg) IN
       /\ Len(args) >= 3
       /\ lower(args[2]) \in DOMAIN cipher_classes
       /\ lower(args[2]) = mixed_alphabet => Len(args) >= 4

\* C14: for every algorithm of the dispatcher table and every text of
\* letters separated by single spaces, /encrypt <algorithm> <text> answers
\* with an output, and /decrypt <algorithm> <that output> answers with the
\* original text as its output.
C14_BotRoundTrip ==
    ListedWithText
        => /\ ct.kind = "Output"
           /\ pc = "deciphered" => pt = Reply("Output", arg)

\* C15: for every algorithm name the bot lists, in any letter case, a
\* /cipher or /encrypt command with a text replies with the transformed
\* output, never with "Error during" or "not supported".
C15_ListedAlgorithmsReply ==
    ListedWithText
        => /\ ct.kind \notin {"Error during", "not supported"}
           /\ ct.kind = "Output"
           /\ ct.output = cipher(self.val, arg).val

C17_RowLengthGuard ==
    (ctor.cls = "RailFence")
        => /\ ctor.arg[2] < 2 =>
                /\ self = Raise("ValueError")
                /\ pc = "failed"
                /\ ct = NoCall /\ pt = NoCall
           /\ ctor.arg[2] >= 2 =>
                /\ self.exc = "none"
                /\ self.val.row_length = ctor.arg[2]
                /\ pc # "failed"

\* C17 happens: RailFence("HELLOWORLD", 1) fails with ValueError
C17_Witness ==
    /\ ctor.cls = "RailFence"
    /\ ctor.arg[1] = Str("HELLOWORLD") /\ ctor.arg[2] = 1
    /\ self = Raise("ValueError")
    /\ pc = "failed"

\* keys of k letters in non-decreasing alphabetical order: k copies of "A",
\* the first k letters, letters in pairs, in lowercase and in mixed case
SortedKeys(k) ==
    {[i \in 1..k |-> 65], [i \in 1..k |-> 64 + i], [i \in 1..k |-> 97 + (i \div 2)],
     [i \in 1..k |-> IF i % 2 = 0 THEN 76 + (i \div 2) ELSE 108 + (i \div 2)]}

\* the Scytale guard lets the text through
PassesGuard(k, text) == k < Len(text) \div 2

\* C18: for every key k >= 1 and every text that passes the Scytale guard,
\* Scytale(k).cipher(text) = ColumnarTransposition(K).cipher(text) and
\* Scytale(k).decipher(text) = ColumnarTransposition(K).decipher(text) for
\* every k-letter key K whose letters are in non-decreasing order.
C18_ScytaleIsColumnar ==
    (ctor.cls = "Scytale" /\ ctor.arg >= 1)
        => \A K \in SortedKeys(ctor.arg) :
              LET columnar == ColumnarTransposition_init(K).val IN
              /\ (pc \in {"ciphered", "deciphered"} /\ ct.exc # "nocall"
                        /\ PassesGuard(ctor.arg, arg))
                    => /\ ct.exc = "none"
                       /\ ct = cipher(columnar, arg)
              /\ (pc = "deciphered" /\ PassesGuard(ctor.arg, darg))
                    => /\ pt.exc = "none"
                       /\ pt = decipher(columnar, darg)

\* C18 happens: Scytale(2) ciphers "ABCDEF" column by column and deciphers
\* the ciphertext
C18_Witness ==
    /\ ctor.cls = "Scytale" /\ ctor.arg = 2
    /\ pc = "deciphered"
    /\ arg = Str("ABCDEF")
    /\ ct = Ok(Str("ACEBDF"))
    /\ darg = Str("ACEBDF")
    /\ pt = Ok(Str("ABCDEF"))

\* the number of times c occurs in s
Count(s, c) == Cardinality({i \in 1..Len(s) : s[i] = c})

\* out has the length of text and every character as often as text has it
IsRearrangement(out, text) ==
    /\ Len(out) = Len(text)
    /\ \A c \in Range(out) \cup Range(text) : Count(out, c) = Count(text, c)

\* C19: for every non-empty key and every text ColumnarTransposition.cipher
\* returns a rearrangement of the normalized input (letters only,
\* upper-cased); for every integer key and text Scytale.cipher either fails
\* with ValueError or returns such a rearrangement: no other error, no
\* letter dropped or duplicated.
C19_OnlyRearranges ==
    (/\ \/ ctor.cls = "ColumnarTransposition" /\ Len(ctor.arg) > 0
        \/ ctor.cls = "Scytale"
     /\ pc \in {"ciphered", "deciphered"}
     /\ ct.exc # "nocall")
        => /\ ct.exc \in (IF ctor.cls = "Scytale" THEN {"none", "ValueError"} ELSE {"none"})
           /\ ct.exc = "none"
                => IsRearrangement(ct.val, upper(omit_all_except_alpha(arg)))

====
